---- MODULE Spec2Model ----
(***************************************************************************)
(* A model of the feature-map rendering engine of                          *)
(* shifts_dataset/sdc/ysdc_dataset_api/features/rendering.py:              *)
(* FeatureRenderer construction (time-grid validation, renderer dispatch,  *)
(* channel counting) and produce_features (target lookup, tensor           *)
(* allocation, one render step per renderer, return), with two call slots  *)
(* that may run concurrently on one shared FeatureRenderer instance.       *)
(*                                                                         *)
(* Representation.  Python lists are sequences; a Python dict is the       *)
(* sequence of its <<key, value>> items.  Python's 0-based indices are     *)
(* kept for channels and pixels (functions over 0..n-1).  Real-valued      *)
(* coordinates are fixed-point integers with denominator Q = 4, which is   *)
(* exact for the inputs drawn here (integer positions, even or odd         *)
(* footprint sizes, resolution 1 or 2).  Angles (yaw, lane direction) are  *)
(* counted in quarter turns.                                               *)
(***************************************************************************)
EXTENDS Integers, Sequences, FiniteSets, TLC

VARIABLES
    config,     \* the config dict handed to FeatureRenderer(config)
    inst,       \* the FeatureRenderer instance (or the construction error)
    heap,       \* every tensor allocated so far, by allocation order
    calls,      \* the two produce_features activations (slots)
    returned,   \* the calls that have ended, in the order they ended
    ncalls      \* number of produce_features calls started

vars == <<config, inst, heap, calls, returned, ncalls>>

----------------------------------------------------------------------------
(* Bounds of the model *)

\* produce_features calls made on one instance
MaxCalls == 3
\* largest "small" start/stop value of a time grid drawn for construction
MaxSmall == 2
\* largest step of a time grid drawn for construction
MaxStep == 3

(* Program constants *)
MAX_HISTORY_LENGTH == 25

----------------------------------------------------------------------------
(* Python helpers *)

\* x in list
InList(x, list) == \E i \in 1..Len(list) : list[i] = x

\* key in dict
HasKey(d, k) == \E i \in 1..Len(d) : d[i][1] = k

\* dict[key], for a key the dict has
Get(d, k) == d[CHOOSE i \in 1..Len(d) : d[i][1] = k][2]

BoolInt(b) == IF b THEN 1 ELSE 0

RECURSIVE RangeFrom(_, _, _)
\* the elements of range(a, b, s) for s # 0
RangeFrom(a, b, s) ==
    IF (s > 0 /\ a >= b) \/ (s < 0 /\ a <= b) THEN <<>>
    ELSE <<a>> \o RangeFrom(a + s, b, s)

\* list(range(a, b, s)): range() raises ValueError when the step is zero
PyRange(a, b, s) ==
    IF s = 0 THEN [err |-> "ValueError", val |-> <<>>]
    ELSE [err |-> "none", val |-> RangeFrom(a, b, s)]

----------------------------------------------------------------------------
(* Sub-feature channel counts *)

VehicleTracksRenderer_get_num_channels(cfg) ==
    BoolInt(InList("occupancy", cfg)) + 2 * BoolInt(InList("velocity", cfg))
    + 2 * BoolInt(InList("acceleration", cfg)) + BoolInt(InList("yaw", cfg))

PedestrianTracksRenderer_get_num_channels(cfg) ==
    BoolInt(InList("occupancy", cfg)) + 2 * BoolInt(InList("velocity", cfg))

_get_crosswalk_feature_map_size(cfg) ==
    BoolInt(InList("crosswalk_occupancy", cfg))
    + BoolInt(InList("crosswalk_availability", cfg))

_get_lane_feature_map_size(cfg) ==
    BoolInt(InList("lane_availability", cfg)) + BoolInt(InList("lane_direction", cfg))
    + BoolInt(InList("lane_occupancy", cfg)) + BoolInt(InList("lane_priority", cfg))
    + BoolInt(InList("lane_speed_limit", cfg))

_get_road_feature_map_size(cfg) == BoolInt(InList("road_polygons", cfg))

RoadGraphRenderer_get_num_channels(cfg) ==
    _get_crosswalk_feature_map_size(cfg) + _get_lane_feature_map_size(cfg)
    + _get_road_feature_map_size(cfg)

RendererNumChannels(kind, cfg) ==
    CASE kind = "vehicles" -> VehicleTracksRenderer_get_num_channels(cfg)
      [] kind = "pedestrians" -> PedestrianTracksRenderer_get_num_channels(cfg)
      [] OTHER -> RoadGraphRenderer_get_num_channels(cfg)

----------------------------------------------------------------------------
(* Construction *)

\* mutant: the window is closed at its recent end, range(-stop - 1, -start + 1, step)
_get_history_indices_closed(time_grid_params) ==
    PyRange(-time_grid_params.stop - 1, -time_grid_params.start + 1, time_grid_params.step)

\* range(-stop - 1, -start, step)
_get_history_indices(time_grid_params) ==
    PyRange(-time_grid_params.stop - 1, -time_grid_params.start, time_grid_params.step)

\* mutant: the history limit is not checked
_validate_time_grid_unbounded(time_grid_params) ==
    IF time_grid_params.start < 0 THEN "ValueError"
    ELSE IF time_grid_params.stop < 0 THEN "ValueError"
    ELSE IF time_grid_params.start > time_grid_params.stop THEN "ValueError"
    ELSE "none"

\* the four checks of the static method, in order; "step" is not examined
_validate_time_grid(time_grid_params) ==
    IF time_grid_params.start < 0 THEN "ValueError"
    ELSE IF time_grid_params.stop < 0 THEN "ValueError"
    ELSE IF time_grid_params.start > time_grid_params.stop THEN "ValueError"
    ELSE IF time_grid_params.stop + 1 > MAX_HISTORY_LENGTH THEN "ValueError"
    ELSE "none"

\* mutant: the origin is moved by the full extent, not by half of it
_get_to_feature_map_transform_unhalved(feature_map_params) ==
    [scale4 |-> 4 \div feature_map_params.resolution,
     origin_x4 |-> 4 * feature_map_params.rows,
     origin_y4 |-> 4 * feature_map_params.cols]

\* the 4x4 matrix, as its scale and its two origins (fixed point, Q = 4)
_get_to_feature_map_transform(feature_map_params) ==
    [scale4 |-> 4 \div feature_map_params.resolution,
     origin_x4 |-> 2 * feature_map_params.rows,
     origin_y4 |-> 2 * feature_map_params.cols]

NoParams == [rows |-> 0, cols |-> 0, resolution |-> 1]
NoTransform == [scale4 |-> 0, origin_x4 |-> 0, origin_y4 |-> 0]

NoRenderer ==
    [kind |-> "none", config |-> <<>>, feature_map_params |-> NoParams,
     history_indices |-> <<>>, num_channels |-> 0, to_feature_map_tf |-> NoTransform]

\* FeatureMapRendererBase.__init__ of the class chosen for `kind`
NewRenderer(kind, cfg, feature_map_params, time_grid_params, to_feature_map_tf) ==
    LET h == _get_history_indices(time_grid_params) IN
    IF h.err # "none" THEN [err |-> h.err, val |-> NoRenderer]
    ELSE [err |-> "none",
          val |-> [kind |-> kind, config |-> cfg,
                   feature_map_params |-> feature_map_params,
                   history_indices |-> h.val,
                   num_channels |-> RendererNumChannels(kind, cfg),
                   to_feature_map_tf |-> to_feature_map_tf]]

\* mutant: 'pedestrians' is looked for before 'vehicles'
DispatchKindPedestriansFirst(renderer_config) ==
    IF HasKey(renderer_config, "pedestrians") THEN "pedestrians"
    ELSE IF HasKey(renderer_config, "vehicles") THEN "vehicles"
    ELSE IF HasKey(renderer_config, "road_graph") THEN "road_graph"
    ELSE ""

\* the category a renderer entry is dispatched to ("" when none is recognised)
DispatchKind(renderer_config) ==
    IF HasKey(renderer_config, "vehicles") THEN "vehicles"
    ELSE IF HasKey(renderer_config, "pedestrians") THEN "pedestrians"
    ELSE IF HasKey(renderer_config, "road_graph") THEN "road_graph"
    ELSE ""

\* mutant: an unrecognised entry is skipped with a renderer that draws nothing
_create_renderer_lenient(renderer_config, feature_map_params, time_grid_params, to_feature_map_tf) ==
    LET kind == DispatchKind(renderer_config) IN
    IF kind = "" THEN [err |-> "none", val |-> NoRenderer]
    ELSE NewRenderer(kind, Get(renderer_config, kind), feature_map_params,
                     time_grid_params, to_feature_map_tf)

_create_renderer(renderer_config, feature_map_params, time_grid_params, to_feature_map_tf) ==
    LET kind == DispatchKind(renderer_config) IN
    IF kind = "" THEN [err |-> "NotImplementedError", val |-> NoRenderer]
    ELSE NewRenderer(kind, Get(renderer_config, kind), feature_map_params,
                     time_grid_params, to_feature_map_tf)

RECURSIVE FlattenGroups(_)
\* the (time grid, renderer entry) pairs in the order the nested loops visit them
FlattenGroups(groups) ==
    IF groups = <<>> THEN <<>>
    ELSE [i \in 1..Len(Head(groups).renderers) |->
             [time_grid_params |-> Head(groups).time_grid_params,
              renderer_config |-> Head(groups).renderers[i]]]
         \o FlattenGroups(Tail(groups))

RECURSIVE CreateFrom(_, _, _, _)
\* the loop body over the remaining pairs; the first exception ends the loop
CreateFrom(pairs, feature_map_params, to_feature_map_tf, renderers) ==
    IF pairs = <<>> THEN [err |-> "none", val |-> renderers]
    ELSE LET p == Head(pairs)
             v == _validate_time_grid(p.time_grid_params)
             r == _create_renderer(p.renderer_config, feature_map_params,
                                   p.time_grid_params, to_feature_map_tf)
         IN IF v # "none" THEN [err |-> v, val |-> <<>>]
            ELSE IF r.err # "none" THEN [err |-> r.err, val |-> <<>>]
            ELSE CreateFrom(Tail(pairs), feature_map_params, to_feature_map_tf,
                            Append(renderers, r.val))

_create_renderers_list(cfg, feature_map_params, to_feature_map_tf) ==
    CreateFrom(FlattenGroups(cfg.renderers_groups), feature_map_params, to_feature_map_tf, <<>>)

RECURSIVE SumChannels(_)
SumChannels(renderers) ==
    IF renderers = <<>> THEN 0
    ELSE Head(renderers).num_channels * Len(Head(renderers).history_indices)
         + SumChannels(Tail(renderers))

_get_num_channels(renderers) == SumChannels(renderers)

NoInstance(status, error) ==
    [status |-> status, error |-> error, feature_map_params |-> NoParams,
     to_feature_map_tf |-> NoTransform, renderers |-> <<>>, num_channels |-> 0]

\* FeatureRenderer.__init__
FeatureRenderer_init(cfg) ==
    LET tf == _get_to_feature_map_transform(cfg.feature_map_params)
        rs == _create_renderers_list(cfg, cfg.feature_map_params, tf)
    IN
    IF rs.err # "none" THEN NoInstance("error", rs.err)
    ELSE [status |-> "ok", error |-> "none",
          feature_map_params |-> cfg.feature_map_params,
          to_feature_map_tf |-> tf,
          renderers |-> rs.val,
          num_channels |-> _get_num_channels(rs.val)]

\* mutant: the declared shape names the columns before the rows
get_tf_signature_swapped(self) ==
    [shape |-> <<self.num_channels, self.feature_map_params.cols,
                 self.feature_map_params.rows>>,
     dtype |-> "float32"]

\* get_tf_signature: the declared shape
get_tf_signature(self) ==
    [shape |-> <<self.num_channels, self.feature_map_params.rows,
                 self.feature_map_params.cols>>,
     dtype |-> "float32"]

----------------------------------------------------------------------------
(* Scenes and requests (the inputs of produce_features) *)

Track(id, pos, dim, vel, acc, yaw) ==
    [track_id |-> id, position |-> pos, dimensions |-> dim,
     linear_velocity |-> vel, linear_acceleration |-> acc, yaw |-> yaw]

NoTrack == Track(-1, <<0, 0>>, <<0, 0>>, <<0, 0>>, <<0, 0>>, 0)

Frames == 1..MAX_HISTORY_LENGTH

\* The path graph shared by the scenes: lanes 1 and 3 have the same speed limit
\* and availability, lane 2 differs and crosses both; the crosswalks overlap.
PathGraph ==
    [lanes |-> <<
        [centers |-> << <<-2, 0>>, <<1, 0>> >>, max_velocity |-> 15,
         gives_way_to_some_lane |-> FALSE, section |-> 1],
        [centers |-> << <<0, -2>>, <<0, 1>> >>, max_velocity |-> 30,
         gives_way_to_some_lane |-> TRUE, section |-> 2],
        [centers |-> << <<-1, -1>>, <<-1, 0>>, <<1, 0>> >>, max_velocity |-> 15,
         gives_way_to_some_lane |-> FALSE, section |-> 1] >>,
     crosswalks |-> <<
        [geometry |-> << <<-2, -2>>, <<0, -2>>, <<0, 0>>, <<-2, 0>> >>, section |-> 1],
        [geometry |-> << <<-1, -1>>, <<1, -1>>, <<1, 1>>, <<-1, 1>> >>, section |-> 2],
        [geometry |-> << <<0, 0>>, <<1, 0>>, <<1, 1>>, <<0, 1>> >>, section |-> 1] >>,
     road_polygons |-> <<
        [geometry |-> << <<-2, -1>>, <<1, -1>>, <<1, 0>>, <<-2, 0>> >>] >>]

EmptyPathGraph == [lanes |-> <<>>, crosswalks |-> <<>>, road_polygons |-> <<>>]

\* Scene 1: two vehicles and a pedestrian around the ego in the latest frame,
\* one vehicle in the frame before it, nothing but the ego earlier.
\* Scene 2: the ego alone, turned half a turn, on an empty map.
SceneIds == {1, 2}

Scene1 ==
      [past_vehicle_tracks |-> [f \in Frames |->
          IF f = MAX_HISTORY_LENGTH
            THEN << Track(1, <<1, 0>>, <<2, 2>>, <<1, 0>>, <<0, 1>>, 2),
                    Track(2, <<0, 1>>, <<2, 2>>, <<0, 2>>, <<1, 1>>, 0) >>
          ELSE IF f = MAX_HISTORY_LENGTH - 1
            THEN << Track(1, <<0, 0>>, <<2, 2>>, <<1, 0>>, <<0, 0>>, 2) >>
          ELSE <<>>],
       past_pedestrian_tracks |-> [f \in Frames |->
          IF f = MAX_HISTORY_LENGTH
            THEN << Track(3, <<-1, -1>>, <<1, 1>>, <<1, 1>>, <<0, 0>>, 0),
                    Track(4, <<-1, -1>>, <<1, 1>>, <<2, 0>>, <<0, 0>>, 0) >>
          ELSE <<>>],
       past_ego_track |-> [f \in Frames |->
          Track(0, <<0, 0>>, <<2, 2>>, <<3, 0>>, <<0, 0>>, 0)],
       traffic_lights |-> [f \in Frames |->
          IF f = MAX_HISTORY_LENGTH THEN << <<1, 1>>, <<2, 2>> >>
          ELSE << <<1, 2>>, <<2, 1>> >>],
       path_graph |-> PathGraph]

Scene2 ==
      [past_vehicle_tracks |-> [f \in Frames |-> <<>>],
       past_pedestrian_tracks |-> [f \in Frames |-> <<>>],
       past_ego_track |-> [f \in Frames |->
          Track(0, <<1, 1>>, <<2, 2>>, <<1, 2>>, <<1, 0>>, 2)],
       traffic_lights |-> [f \in Frames |-> <<>>],
       path_graph |-> EmptyPathGraph]

Scene(id) == IF id = 1 THEN Scene1 ELSE Scene2

\* the (scene, request.track_id) pairs drawn for a call: in scene 1 a vehicle
\* and a track id the scene does not hold; in scene 2 the ego
Requests == {<<1, 1>>, <<1, 9>>, <<2, 0>>}

\* seq[i] with Python's negative indices; the scenes carry every frame the
\* validated offsets can name
PyIndex(seq, i) == IF i < 0 THEN seq[Len(seq) + i + 1] ELSE seq[i + 1]

RECURSIVE FindTrack(_, _)
FindTrack(tracks, track_id) ==
    IF tracks = <<>> THEN [err |-> "LookupError", val |-> NoTrack]
    ELSE IF Head(tracks).track_id = track_id THEN [err |-> "none", val |-> Head(tracks)]
    ELSE FindTrack(Tail(tracks), track_id)

\* the latest state of the track the request names, or a lookup error
get_latest_track_state_by_id(scene, track_id) ==
    FindTrack(PyIndex(scene.past_vehicle_tracks, -1)
              \o PyIndex(scene.past_pedestrian_tracks, -1)
              \o <<PyIndex(scene.past_ego_track, -1)>>, track_id)

\* the global -> track-centric transform: the track's position and heading
get_to_track_frame_transform(track) == [pos |-> track.position, yaw |-> track.yaw]

----------------------------------------------------------------------------
(* Coordinate transforms and rounding (fixed point, Q = 4) *)

\* rotation by -yaw, yaw a number of quarter turns
Rotate(v, yaw) ==
    CASE yaw % 4 = 0 -> v
      [] yaw % 4 = 1 -> <<v[2], -v[1]>>
      [] yaw % 4 = 2 -> <<-v[1], -v[2]>>
      [] OTHER -> <<-v[2], v[1]>>

\* to_feature_map_tf @ to_track_transform
Compose(to_feature_map_tf, to_track_transform) ==
    [fm |-> to_feature_map_tf, track |-> to_track_transform]

\* transform_2d_points with the composed transform: p4 is a point in metres * 4,
\* the result is in pixels * 4
transform_2d_points(p4, transform) ==
    LET d == Rotate(<<p4[1] - 4 * transform.track.pos[1],
                      p4[2] - 4 * transform.track.pos[2]>>, transform.track.yaw)
    IN <<(transform.fm.scale4 * d[1]) \div 4 + transform.fm.origin_x4,
         (transform.fm.scale4 * d[2]) \div 4 + transform.fm.origin_y4>>

\* transform_2d_vectors with the track transform: rotation only
transform_2d_vectors(v, to_track_transform) == Rotate(v, to_track_transform.yaw)

\* np.around(n / 4): to the nearest integer, ties to the even one
Around4(n) ==
    LET q == n \div 4
        r == n % 4
    IN IF r < 2 THEN q
       ELSE IF r > 2 THEN q + 1
       ELSE IF q % 2 = 0 THEN q ELSE q + 1

\* mutant: the shifted coordinate is truncated downwards
RoundPointFloor(p4) == <<(p4[1] - 2) \div 4, (p4[2] - 2) \div 4>>

\* np.around(p - 0.5).astype(np.int32) of a point in pixels * 4
RoundPoint(p4) == <<Around4(p4[1] - 2), Around4(p4[2] - 2)>>

\* the four corners of a track's footprint, in metres * 4
get_tracks_polygon(track) ==
    LET x == 4 * track.position[1]
        y == 4 * track.position[2]
        hx == 2 * track.dimensions[1]
        hy == 2 * track.dimensions[2]
    IN << <<x - hx, y - hy>>, <<x + hx, y - hy>>, <<x + hx, y + hy>>, <<x - hx, y + hy>> >>

\* a polygon's points transformed and rounded to pixel indices
PixelPolygon(points4, transform) ==
    [i \in 1..Len(points4) |-> RoundPoint(transform_2d_points(points4[i], transform))]

Metres4(points) == [i \in 1..Len(points) |-> <<4 * points[i][1], 4 * points[i][2]>>]

----------------------------------------------------------------------------
(* Rasterizer: the pixels <<x, y>> a primitive covers.  The polygons drawn   *)
(* here are axis-aligned rectangles and the polylines have axis-aligned      *)
(* segments; on float32 planes LINE_AA is drawn as an 8-connected line, so   *)
(* every covered pixel is set to the colour.                                 *)

Min(S) == CHOOSE m \in S : \A k \in S : m <= k
Max(S) == CHOOSE m \in S : \A k \in S : m >= k

\* cv2.fillPoly of one rectangle
PolyPixels(poly) ==
    LET xs == {poly[i][1] : i \in 1..Len(poly)}
        ys == {poly[i][2] : i \in 1..Len(poly)}
    IN IF poly = <<>> THEN {}
       ELSE (Min(xs)..Max(xs)) \X (Min(ys)..Max(ys))

\* cv2.line between two pixel points on one row or one column
SegmentPixels(a, b) ==
    (Min({a[1], b[1]})..Max({a[1], b[1]})) \X (Min({a[2], b[2]})..Max({a[2], b[2]}))

\* cv2.polylines of one open polyline
LinePixels(line) ==
    UNION {SegmentPixels(line[i], line[i + 1]) : i \in 1..(Len(line) - 1)}

\* a drawing call on one channel plane of the view
DrawOp(ch, pix, val) == [ch |-> ch, pix |-> pix, val |-> val]

----------------------------------------------------------------------------
(* Track renderers *)

\* mutant: the ego track is put in front of the vehicle tracks
_get_tracks_at_timestamp_ego_first(kind, scene, ts_ind) ==
    IF kind = "vehicles"
    THEN <<PyIndex(scene.past_ego_track, ts_ind)>> \o PyIndex(scene.past_vehicle_tracks, ts_ind)
    ELSE PyIndex(scene.past_pedestrian_tracks, ts_ind)

\* _get_tracks_at_timestamp of the two track renderers
_get_tracks_at_timestamp(kind, scene, ts_ind) ==
    IF kind = "vehicles"
    THEN PyIndex(scene.past_vehicle_tracks, ts_ind) \o <<PyIndex(scene.past_ego_track, ts_ind)>>
    ELSE PyIndex(scene.past_pedestrian_tracks, ts_ind)

_get_occupancy_values(track) == <<1>>

\* mutant: the velocity is written in global axes
_get_velocity_values_global(track, transform) == track.linear_velocity

_get_velocity_values(track, transform) == transform_2d_vectors(track.linear_velocity, transform)
_get_acceleration_values(track, transform) ==
    transform_2d_vectors(track.linear_acceleration, transform)
_get_yaw_values(track) == <<track.yaw>>

\* mutant: the velocity columns come before the occupancy column
FmRowVelocityFirst(kind, cfg, track, transform) ==
    (IF InList("velocity", cfg) THEN _get_velocity_values(track, transform) ELSE <<>>)
    \o (IF InList("occupancy", cfg) THEN _get_occupancy_values(track) ELSE <<>>)
    \o (IF kind = "vehicles" /\ InList("acceleration", cfg)
        THEN _get_acceleration_values(track, transform) ELSE <<>>)
    \o (IF kind = "vehicles" /\ InList("yaw", cfg) THEN _get_yaw_values(track) ELSE <<>>)

\* one row of the value matrix: the enabled sub-features in the fixed order
FmRow(kind, cfg, track, transform) ==
    (IF InList("occupancy", cfg) THEN _get_occupancy_values(track) ELSE <<>>)
    \o (IF InList("velocity", cfg) THEN _get_velocity_values(track, transform) ELSE <<>>)
    \o (IF kind = "vehicles" /\ InList("acceleration", cfg)
        THEN _get_acceleration_values(track, transform) ELSE <<>>)
    \o (IF kind = "vehicles" /\ InList("yaw", cfg) THEN _get_yaw_values(track) ELSE <<>>)

\* _get_fm_values: np.concatenate raises ValueError on an empty list of arrays
_get_fm_values(kind, cfg, tracks, transform) ==
    IF FmRow(kind, cfg, NoTrack, transform) = <<>>
    THEN [err |-> "ValueError", val |-> <<>>]
    ELSE [err |-> "none", val |-> [k \in 1..Len(tracks) |-> FmRow(kind, cfg, tracks[k], transform)]]

\* mutant: the tracks are drawn from the last to the first
TrackFrameOpsReversed(num_channels, i, polygons, fm_values) ==
    LET n == Len(fm_values)
        w == Len(fm_values[1])
    IN [k \in 1..(w * n) |->
          DrawOp(i * num_channels + ((k - 1) \div n),
                 PolyPixels(polygons[n - ((k - 1) % n)]),
                 fm_values[n - ((k - 1) % n)][((k - 1) \div n) + 1])]

\* the fillPoly calls of history step i: channels outermost, tracks in list order
TrackFrameOps(num_channels, i, polygons, fm_values) ==
    LET n == Len(fm_values)
        w == Len(fm_values[1])
    IN [k \in 1..(w * n) |->
          DrawOp(i * num_channels + ((k - 1) \div n),
                 PolyPixels(polygons[((k - 1) % n) + 1]),
                 fm_values[((k - 1) % n) + 1][((k - 1) \div n) + 1])]

RECURSIVE TrackRenderFromCompacted(_, _, _, _, _)
\* mutant: the channel offset counts the frames drawn so far, so a skipped
\* frame leaves no gap
TrackRenderFromCompacted(self, i, scene, to_track_transform, ops) ==
    IF i >= Len(self.history_indices) THEN [err |-> "none", val |-> ops]
    ELSE LET transform == Compose(self.to_feature_map_tf, to_track_transform)
             tracks == _get_tracks_at_timestamp(self.kind, scene, self.history_indices[i + 1])
             polygons == [k \in 1..Len(tracks) |->
                             PixelPolygon(get_tracks_polygon(tracks[k]), transform)]
             fm == _get_fm_values(self.kind, self.config, tracks, to_track_transform)
             drawn == Cardinality({j \in 1..i :
                          _get_tracks_at_timestamp(self.kind, scene,
                                                   self.history_indices[j]) # <<>>})
         IN IF tracks = <<>>
            THEN TrackRenderFromCompacted(self, i + 1, scene, to_track_transform, ops)
            ELSE IF fm.err # "none" THEN [err |-> fm.err, val |-> ops]
            ELSE TrackRenderFromCompacted(self, i + 1, scene, to_track_transform,
                     ops \o TrackFrameOps(self.num_channels, drawn, polygons, fm.val))

RECURSIVE TrackRenderFrom(_, _, _, _, _)
\* the loop of TrackRendererBase.render from history step i on
TrackRenderFrom(self, i, scene, to_track_transform, ops) ==
    IF i >= Len(self.history_indices) THEN [err |-> "none", val |-> ops]
    ELSE LET transform == Compose(self.to_feature_map_tf, to_track_transform)
             tracks == _get_tracks_at_timestamp(self.kind, scene, self.history_indices[i + 1])
             polygons == [k \in 1..Len(tracks) |->
                             PixelPolygon(get_tracks_polygon(tracks[k]), transform)]
             fm == _get_fm_values(self.kind, self.config, tracks, to_track_transform)
         IN IF tracks = <<>>
            THEN TrackRenderFrom(self, i + 1, scene, to_track_transform, ops)
            ELSE IF fm.err # "none" THEN [err |-> fm.err, val |-> ops]
            ELSE TrackRenderFrom(self, i + 1, scene, to_track_transform,
                                 ops \o TrackFrameOps(self.num_channels, i, polygons, fm.val))

TrackRenderer_render(self, scene, to_track_transform) ==
    TrackRenderFrom(self, 0, scene, to_track_transform, <<>>)

----------------------------------------------------------------------------
(* Road graph renderer *)

\* cv2.fillPoly of several rectangles in one call: every outline is drawn and
\* the interior is filled by the even-odd rule over all the contours
PolysPixels(polys) ==
    LET Box(p) == PolyPixels(p)
        xs(p) == {p[i][1] : i \in 1..Len(p)}
        ys(p) == {p[i][2] : i \in 1..Len(p)}
        Edge(p) == {q \in Box(p) : q[1] \in {Min(xs(p)), Max(xs(p))}
                                   \/ q[2] \in {Min(ys(p)), Max(ys(p))}}
        all == UNION {Box(polys[k]) : k \in 1..Len(polys)}
    IN {q \in all :
          \/ \E k \in 1..Len(polys) : q \in Edge(polys[k])
          \/ Cardinality({k \in 1..Len(polys) : q \in Box(polys[k])}) % 2 = 1}

\* cv2.polylines of several open polylines in one call
LinesPixels(lines) == UNION {LinePixels(lines[k]) : k \in 1..Len(lines)}

RECURSIVE DistinctFrom(_, _)
DistinctFrom(vals, seen) ==
    IF vals = <<>> THEN seen
    ELSE IF InList(Head(vals), seen) THEN DistinctFrom(Tail(vals), seen)
    ELSE DistinctFrom(Tail(vals), Append(seen, Head(vals)))

\* the keys of a defaultdict(list) filled in this order: first occurrences
GroupKeys(vals) == DistinctFrom(vals, <<>>)

\* the items appended under one key, in order
GroupOf(items, vals, key) == SelectSeq([k \in 1..Len(items) |-> <<vals[k], items[k]>>],
                                       LAMBDA e : e[1] = key)

GroupItems(items, vals, key) ==
    LET g == GroupOf(items, vals, key) IN [k \in 1..Len(g) |-> g[k][2]]

\* the state of a traffic-light section in a frame (0 when the frame has none)
SectionState(tl_sections, section) ==
    IF HasKey(tl_sections, section) THEN Get(tl_sections, section) ELSE 0

get_crosswalk_availability(crosswalk, tl_sections) ==
    SectionState(tl_sections, crosswalk.section)

get_lane_availability(lane, section_to_state) == SectionState(section_to_state, lane.section)

\* the items of a defaultdict(list) filled in this order: one <<key, list>>
\* per key, keys by first occurrence
Grouped(items, vals) ==
    LET keys == GroupKeys(vals)
    IN [g \in 1..Len(keys) |-> <<keys[g], GroupItems(items, vals, keys[g])>>]

_render_crosswalks(cfg, base, path_graph, tl_sections, transform) ==
    LET cws == path_graph.crosswalks
        crosswalk_polygons == [k \in 1..Len(cws) |->
                                  PixelPolygon(Metres4(cws[k].geometry), transform)]
        occ == InList("crosswalk_occupancy", cfg)
        channel == BoolInt(occ)
        avail == [k \in 1..Len(cws) |-> get_crosswalk_availability(cws[k], tl_sections)]
    IN (IF occ THEN <<DrawOp(base, PolysPixels(crosswalk_polygons), 1)>> ELSE <<>>)
       \o (IF InList("crosswalk_availability", cfg)
           THEN LET groups == Grouped(crosswalk_polygons, avail)
                IN [g \in 1..Len(groups) |->
                      DrawOp(base + channel, PolysPixels(groups[g][2]), groups[g][1])]
           ELSE <<>>)

_render_lane_availability(ch, lane_centers, path_graph, tl_sections) ==
    LET lanes == path_graph.lanes
        avail == [k \in 1..Len(lanes) |-> get_lane_availability(lanes[k], tl_sections)]
        groups == Grouped(lane_centers, avail)
    IN [g \in 1..Len(groups) |-> DrawOp(ch, LinesPixels(groups[g][2]), groups[g][1])]

\* math.atan2 of a segment along one axis, in quarter turns
Atan2Quarter(dy, dx) ==
    IF dy = 0 THEN (IF dx >= 0 THEN 0 ELSE 2)
    ELSE IF dy > 0 THEN 1 ELSE -1

RECURSIVE LaneDirectionOps(_, _)
\* one cv2.line per segment, lanes in order, segments in order
LaneDirectionOps(ch, lane_centers) ==
    IF lane_centers = <<>> THEN <<>>
    ELSE LET lane == Head(lane_centers)
         IN [i \in 1..(Len(lane) - 1) |->
               DrawOp(ch, SegmentPixels(lane[i], lane[i + 1]),
                      Atan2Quarter(lane[i + 1][2] - lane[i][2], lane[i + 1][1] - lane[i][1]))]
            \o LaneDirectionOps(ch, Tail(lane_centers))

_render_lane_direction(ch, lane_centers) == LaneDirectionOps(ch, lane_centers)

_render_lane_occupancy(ch, lane_centers) == <<DrawOp(ch, LinesPixels(lane_centers), 1)>>

_render_lane_priority(ch, lane_centers, path_graph) ==
    LET lanes == path_graph.lanes
        idx == SelectSeq([k \in 1..Len(lanes) |-> k],
                         LAMBDA k : lanes[k].gives_way_to_some_lane)
    IN <<DrawOp(ch, LinesPixels([j \in 1..Len(idx) |-> lane_centers[idx[j]]]), 1)>>

\* mutant: the limit is written as it is, not divided by 15
SpeedColourRaw(limit) == limit

\* limit / 15.0, for the limits of the scenes, which are multiples of 15
SpeedColour(limit) == limit \div 15

_render_lane_speed_limit(ch, lane_centers, path_graph) ==
    LET lanes == path_graph.lanes
        limits == [k \in 1..Len(lanes) |-> lanes[k].max_velocity]
        groups == Grouped(lane_centers, limits)
    IN [g \in 1..Len(groups) |->
          DrawOp(ch, LinesPixels(groups[g][2]), SpeedColour(groups[g][1]))]

_render_lanes(cfg, base, path_graph, tl_sections, transform) ==
    LET lanes == path_graph.lanes
        lane_centers == [k \in 1..Len(lanes) |->
                            PixelPolygon(Metres4(lanes[k].centers), transform)]
        c1 == base
        c2 == c1 + BoolInt(InList("lane_availability", cfg))
        c3 == c2 + BoolInt(InList("lane_direction", cfg))
        c4 == c3 + BoolInt(InList("lane_occupancy", cfg))
        c5 == c4 + BoolInt(InList("lane_priority", cfg))
    IN (IF InList("lane_availability", cfg)
        THEN _render_lane_availability(c1, lane_centers, path_graph, tl_sections) ELSE <<>>)
       \o (IF InList("lane_direction", cfg)
           THEN _render_lane_direction(c2, lane_centers) ELSE <<>>)
       \o (IF InList("lane_occupancy", cfg)
           THEN _render_lane_occupancy(c3, lane_centers) ELSE <<>>)
       \o (IF InList("lane_priority", cfg)
           THEN _render_lane_priority(c4, lane_centers, path_graph) ELSE <<>>)
       \o (IF InList("lane_speed_limit", cfg)
           THEN _render_lane_speed_limit(c5, lane_centers, path_graph) ELSE <<>>)

_render_road_polygons(base, path_graph, transform) ==
    LET rps == path_graph.road_polygons
        road_polygons == [k \in 1..Len(rps) |->
                             PixelPolygon(Metres4(rps[k].geometry), transform)]
    IN <<DrawOp(base, PolysPixels(road_polygons), 1)>>

_get_crosswalk_feature_map_slice(self, ts_ind) ==
    <<ts_ind * self.num_channels,
      ts_ind * self.num_channels + _get_crosswalk_feature_map_size(self.config)>>

\* mutant: the lane sub-slice starts where the step starts
_get_lanes_feature_map_slice_at_step_start(self, ts_ind) ==
    LET offset == ts_ind * self.num_channels
    IN <<offset, offset + _get_lane_feature_map_size(self.config)>>

_get_lanes_feature_map_slice(self, ts_ind) ==
    LET offset == ts_ind * self.num_channels + _get_crosswalk_feature_map_size(self.config)
    IN <<offset, offset + _get_lane_feature_map_size(self.config)>>

_get_road_polygon_feature_map_slice(self, ts_ind) ==
    LET offset == ts_ind * self.num_channels + _get_crosswalk_feature_map_size(self.config)
                  + _get_lane_feature_map_size(self.config)
    IN <<offset, offset + _get_road_feature_map_size(self.config)>>

\* the body of the loop of RoadGraphRenderer.render for one history step
RoadGraphStepOps(self, channel_ind, scene, transform) ==
    LET tl == PyIndex(scene.traffic_lights, self.history_indices[channel_ind + 1])
        pg == scene.path_graph
    IN (IF _get_crosswalk_feature_map_size(self.config) > 0
        THEN _render_crosswalks(self.config, _get_crosswalk_feature_map_slice(self, channel_ind)[1],
                                pg, tl, transform)
        ELSE <<>>)
       \o (IF _get_lane_feature_map_size(self.config) > 0
           THEN _render_lanes(self.config, _get_lanes_feature_map_slice(self, channel_ind)[1],
                              pg, tl, transform)
           ELSE <<>>)
       \o (IF _get_road_feature_map_size(self.config) > 0
           THEN _render_road_polygons(_get_road_polygon_feature_map_slice(self, channel_ind)[1],
                                      pg, transform)
           ELSE <<>>)

RECURSIVE RoadGraphRenderFrom(_, _, _, _)
RoadGraphRenderFrom(self, channel_ind, scene, transform) ==
    IF channel_ind >= Len(self.history_indices) THEN <<>>
    ELSE RoadGraphStepOps(self, channel_ind, scene, transform)
         \o RoadGraphRenderFrom(self, channel_ind + 1, scene, transform)

RoadGraphRenderer_render(self, scene, to_track_transform) ==
    [err |-> "none",
     val |-> RoadGraphRenderFrom(self, 0, scene,
                                 Compose(self.to_feature_map_tf, to_track_transform))]

\* renderer.render(view, scene, to_track_transform): the drawing calls it makes
\* on its view, in order, and the exception that ends it, if any
Renderer_render(self, scene, to_track_transform) ==
    IF self.kind = "road_graph" THEN RoadGraphRenderer_render(self, scene, to_track_transform)
    ELSE TrackRenderer_render(self, scene, to_track_transform)

----------------------------------------------------------------------------
(* Tensors and produce_features *)

\* np.zeros([num_channels, rows, cols], dtype=np.float32)
_create_feature_maps(rows, cols, num_channels) ==
    [shape |-> <<num_channels, rows, cols>>, dtype |-> "float32",
     data |-> [c \in 0..(num_channels - 1) |->
                 [y \in 0..(rows - 1) |-> [x \in 0..(cols - 1) |-> 0]]]]

\* FeatureRenderer._create_feature_maps
FeatureRenderer_create_feature_maps(self) ==
    _create_feature_maps(self.feature_map_params.rows, self.feature_map_params.cols,
                         self.num_channels)

\* mutant: np.empty in place of np.zeros: the new array holds what the last
\* allocated one held
NewArrayUninitialised(h, array) ==
    [id |-> Len(h) + 1, heap |-> Append(h, IF h = <<>> THEN array ELSE h[Len(h)])]

\* mutant: one buffer is kept and zeroed again for every call
NewArrayCached(h, array) ==
    [id |-> 1, heap |-> IF h = <<>> THEN <<array>> ELSE [h EXCEPT ![1] = array]]

\* the memory a new array occupies: np.zeros returns an array of its own
NewArray(h, array) == [id |-> Len(h) + 1, heap |-> Append(h, array)]

\* one drawing call on channel lo + op.ch of the tensor; the plane clips the
\* pixels, and a channel outside the view [lo, hi) is an IndexError
ApplyOp(tensor, lo, hi, op) ==
    IF op.ch < 0 \/ op.ch >= hi - lo THEN [err |-> "IndexError", val |-> tensor]
    ELSE [err |-> "none",
          val |-> [tensor EXCEPT !.data[lo + op.ch] =
                     [y \in DOMAIN @ |-> [x \in DOMAIN @[y] |->
                         IF <<x, y>> \in op.pix THEN op.val ELSE @[y][x]]]]]

RECURSIVE ApplyOps(_, _, _, _)
ApplyOps(tensor, lo, hi, ops) ==
    IF ops = <<>> THEN [err |-> "none", val |-> tensor]
    ELSE LET r == ApplyOp(tensor, lo, hi, Head(ops))
         IN IF r.err # "none" THEN r ELSE ApplyOps(r.val, lo, hi, Tail(ops))

\* mutant: the slice advances by the channel count of one history step only
SliceEndOneStep(slice_start, renderer) == slice_start + renderer.num_channels

\* slice_end = slice_start + renderer.num_channels * renderer.n_history_steps
SliceEnd(slice_start, renderer) ==
    slice_start + renderer.num_channels * Len(renderer.history_indices)

\* renderer.render(feature_maps[slice_start:slice_end, :, :], scene, tf): the
\* tensor after it, and the exception it ended with, if any
RenderInto(tensor, slice_start, slice_end, renderer, scene, to_track_frame_tf) ==
    LET r == Renderer_render(renderer, scene, to_track_frame_tf)
        w == ApplyOps(tensor, slice_start, slice_end, r.val)
    IN IF w.err # "none" THEN w ELSE [err |-> r.err, val |-> w.val]

\* mutant: the tensor is allocated before the target track is looked up
ProgramOrderAllocFirst == <<"alloc", "lookup", "render">>

\* the statements of produce_features in program order
ProgramOrder == <<"lookup", "alloc", "render">>

StepAfter(pc) ==
    ProgramOrder[(CHOOSE i \in 1..Len(ProgramOrder) : ProgramOrder[i] = pc) + 1]

IdleCall ==
    [pc |-> "idle", id |-> 0, scene |-> 0, track_id |-> 0,
     to_track_frame_tf |-> [pos |-> <<0, 0>>, yaw |-> 0],
     fm |-> 0, idx |-> 0, slice_start |-> 0, slices |-> <<>>]

Slots == {1, 2}

\* how a call ended, as its caller sees it
Outcome(c, status, error) ==
    [id |-> c.id, scene |-> c.scene, track_id |-> c.track_id, status |-> status,
     error |-> error, fm |-> IF status = "ok" THEN c.fm ELSE 0,
     allocated |-> c.fm, slices |-> c.slices]

----------------------------------------------------------------------------
(* Configs *)

Grid(start, stop, step) == [start |-> start, stop |-> stop, step |-> step]
Group(tg, renderers) == [time_grid_params |-> tg, renderers |-> renderers]
Entry(category, subfeatures) == << <<category, subfeatures>> >>
Config(rows, cols, resolution, groups) ==
    [feature_map_params |-> [rows |-> rows, cols |-> cols, resolution |-> resolution],
     renderers_groups |-> groups]

AllRoadGraph ==
    <<"road_polygons", "lane_speed_limit", "lane_priority", "lane_occupancy",
      "lane_direction", "lane_availability", "crosswalk_availability", "crosswalk_occupancy">>

\* the renderer entries drawn for the configs
Entries ==
    { Entry("vehicles", <<"occupancy">>),
      Entry("vehicles", <<"yaw", "velocity", "occupancy">>),
      Entry("vehicles", <<>>),
      Entry("pedestrians", <<"occupancy", "velocity">>),
      Entry("pedestrians", <<"yaw">>),
      Entry("road_graph", <<"lane_speed_limit", "crosswalk_occupancy">>),
      Entry("road_graph", AllRoadGraph),
      Entry("bicycles", <<"occupancy">>),
      Entry("vehicles", <<"occupancy">>) \o Entry("pedestrians", <<"occupancy">>),
      Entry("road_graph", <<"road_polygons">>) \o Entry("bicycles", <<"occupancy">>),
      Entry("road_graph", AllRoadGraph) \o Entry("pedestrians", <<"occupancy">>),
      Entry("road_graph", <<"road_polygons">>) \o Entry("pedestrians", <<"occupancy">>)
          \o Entry("vehicles", <<"occupancy", "velocity">>) }

\* the configs produce_features is exercised on
CallConfigs ==
    { Config(4, 4, 1, << Group(Grid(0, 1, 1),
                               << Entry("vehicles", <<"velocity", "occupancy">>),
                                  Entry("pedestrians", <<"occupancy">>) >>) >>),
      Config(4, 4, 1, << Group(Grid(0, 0, 1), << Entry("road_graph", AllRoadGraph) >>),
                         Group(Grid(0, 2, 2), << Entry("vehicles", <<"yaw">>) >>) >>),
      Config(4, 2, 1, << Group(Grid(1, 1, 1),
                               << Entry("road_graph", <<"lane_speed_limit",
                                                        "crosswalk_availability">>),
                                  Entry("vehicles", <<"occupancy", "acceleration">>) >>) >>),
      Config(4, 4, 1, << Group(Grid(3, 2, 1), <<>>) >>),
      Config(2, 4, 2, << Group(Grid(0, 0, 1),
                               << Entry("pedestrians", <<>>),
                                  Entry("vehicles", <<"occupancy", "velocity",
                                                      "acceleration">>) >>) >>),
      Config(4, 4, 1, << Group(Grid(0, 0, -1), << Entry("vehicles", <<"occupancy">>) >>) >>),
      Config(4, 4, 1, << Group(Grid(0, 0, 1),
                               << Entry("vehicles", <<"occupancy">>),
                                  Entry("bicycles", <<"occupancy">>) >>) >>),
      Config(4, 4, 1, << Group(Grid(0, 0, 1), << Entry("vehicles", <<"occupancy">>) >>),
                         Group(Grid(0, 1, 1), << Entry("bicycles", <<"occupancy">>),
                                                 Entry("pedestrians", <<"occupancy">>) >>) >>),
      Config(4, 4, 1, << Group(Grid(1, 0, 1), << Entry("vehicles", <<"occupancy">>) >>) >>) }

\* the time grids drawn for construction: small values around zero and the
\* values around the history limit
GridValues == (-1..MaxSmall) \cup {MAX_HISTORY_LENGTH - 2, MAX_HISTORY_LENGTH - 1,
                                   MAX_HISTORY_LENGTH}
Grids == {Grid(a, b, s) : a \in GridValues, b \in GridValues, s \in -1..MaxStep}

RendererLists ==
    {<<>>} \cup {<<e>> : e \in Entries}
    \cup {<<Entry("vehicles", <<"occupancy">>), e>> : e \in Entries}

SecondGroups ==
    { Group(Grid(0, 1, 1), << Entry("pedestrians", <<"occupancy", "velocity">>) >>),
      Group(Grid(2, 1, 1), <<>>),
      Group(Grid(0, 0, 1), << Entry("road_graph", <<"road_polygons">>),
                              Entry("tracks", <<"occupancy">>) >>) }

\* the configs construction is exercised on
ConstructConfigs ==
    {Config(4, 4, 1, <<Group(g, rs)>>) : g \in Grids, rs \in RendererLists}
    \cup {Config(4, 4, 1, <<Group(g, <<e>>), g2>>) :
            g \in Grids, e \in Entries, g2 \in SecondGroups}

----------------------------------------------------------------------------
(* The state machine *)

Start(cfgs) ==
    /\ config \in cfgs
    /\ inst = NoInstance("new", "none")
    /\ heap = <<>>
    /\ calls = [s \in Slots |-> IdleCall]
    /\ returned = {}
    /\ ncalls = 0

Init == Start(CallConfigs)

InitConstruct == Start(ConstructConfigs)

\* FeatureRenderer(config)
Construct ==
    /\ inst.status = "new"
    /\ inst' = FeatureRenderer_init(config)
    /\ UNCHANGED <<config, heap, calls, returned, ncalls>>

\* a caller enters produce_features(scene, request), in the lowest free slot
Call(s) ==
    /\ inst.status = "ok"
    /\ calls[s].pc = "idle"
    /\ ncalls < MaxCalls
    /\ \A k \in Slots : k < s => calls[k].pc # "idle"
    /\ \E rq \in Requests :
          calls' = [calls EXCEPT ![s] = [IdleCall EXCEPT !.pc = ProgramOrder[1],
                                                         !.id = ncalls + 1,
                                                         !.scene = rq[1],
                                                         !.track_id = rq[2]]]
    /\ ncalls' = ncalls + 1
    /\ UNCHANGED <<config, inst, heap, returned>>

\* the loop has no renderer left: return {'feature_maps': feature_maps}
Finished(c) == c.pc = "render" /\ c.idx > Len(inst.renderers)

\* the call's activation after a step, and what its caller has received
AfterStep(s, c) ==
    IF Finished(c)
    THEN /\ returned' = returned \cup {Outcome(c, "ok", "none")}
         /\ calls' = [calls EXCEPT ![s] = IdleCall]
    ELSE /\ calls' = [calls EXCEPT ![s] = c]
         /\ UNCHANGED returned

\* an exception leaves produce_features
Raise(s, c, error) ==
    /\ returned' = returned \cup {Outcome(c, "error", error)}
    /\ calls' = [calls EXCEPT ![s] = IdleCall]

\* track = get_latest_track_state_by_id(...); to_track_frame_tf = ...
Lookup(s) ==
    /\ calls[s].pc = "lookup"
    /\ LET c == calls[s]
           track == get_latest_track_state_by_id(Scene(c.scene), c.track_id)
       IN IF track.err # "none"
          THEN Raise(s, c, track.err)
          ELSE AfterStep(s, [c EXCEPT !.pc = StepAfter("lookup"),
                                      !.to_track_frame_tf =
                                          get_to_track_frame_transform(track.val)])
    /\ UNCHANGED <<config, inst, heap, ncalls>>

\* feature_maps = self._create_feature_maps(); slice_start = 0
Allocate(s) ==
    /\ calls[s].pc = "alloc"
    /\ LET a == NewArray(heap, FeatureRenderer_create_feature_maps(inst))
       IN /\ heap' = a.heap
          /\ AfterStep(s, [calls[s] EXCEPT !.pc = StepAfter("alloc"), !.fm = a.id,
                                           !.idx = 1, !.slice_start = 0])
    /\ UNCHANGED <<config, inst, ncalls>>

\* one iteration of the loop over self._renderers (and the return after the last)
Render(s) ==
    /\ calls[s].pc = "render"
    /\ calls[s].idx <= Len(inst.renderers)
    /\ LET c == calls[s]
           renderer == inst.renderers[c.idx]
           slice_end == SliceEnd(c.slice_start, renderer)
           r == RenderInto(heap[c.fm], c.slice_start, slice_end, renderer,
                           Scene(c.scene), c.to_track_frame_tf)
           c2 == [c EXCEPT !.slices = Append(@, <<c.slice_start, slice_end>>)]
       IN /\ heap' = [heap EXCEPT ![c.fm] = r.val]
          /\ IF r.err # "none"
             THEN Raise(s, c2, r.err)
             ELSE AfterStep(s, [c2 EXCEPT !.idx = c.idx + 1, !.slice_start = slice_end])
    /\ UNCHANGED <<config, inst, ncalls>>

Next ==
    \/ Construct
    \/ \E s \in Slots : Call(s)
    \/ \E s \in Slots : Lookup(s)
    \/ \E s \in Slots : Allocate(s)
    \/ \E s \in Slots : Render(s)

Spec == Init /\ [][Next]_vars

NextConstruct == Construct

SpecConstruct == InitConstruct /\ [][NextConstruct]_vars

----------------------------------------------------------------------------
(* Definitions used by the properties *)

\* the (time grid, renderer entry) pairs the config declares, in declared order
Declared == FlattenGroups(config.renderers_groups)

Constructed == inst.status = "ok"

\* len(range(a, b, s)) for s >= 1, in closed form
RangeLen(a, b, s) == IF b > a THEN (b - a + s - 1) \div s ELSE 0

\* the five conditions of a valid time grid
ValidGrid(g) ==
    g.start >= 0 /\ g.stop >= 0 /\ g.step >= 1 /\ g.start <= g.stop
    /\ g.stop + 1 <= MAX_HISTORY_LENGTH

Categories == {"vehicles", "pedestrians", "road_graph"}

\* an entry none of whose category names is recognised
Unrecognised(entry) == \A i \in 1..Len(entry) : entry[i][1] \notin Categories

\* the calls in progress and the calls that have ended
Active == {calls[s] : s \in {k \in Slots : calls[k].pc # "idle"}}

\* the slices handed to the renderers so far by every call, ended or not
SliceLists == {c.slices : c \in Active} \cup {o.slices : o \in returned}

----------------------------------------------------------------------------
(* C1 *)

\* the slices handed out so far are the declared renderers' blocks, laid end to end
ContiguousSlices(sl) ==
    /\ Len(sl) <= Len(inst.renderers)
    /\ \A i \in 1..Len(sl) :
          /\ sl[i][1] = (IF i = 1 THEN 0 ELSE sl[i - 1][2])
          /\ sl[i][2] - sl[i][1] = inst.renderers[i].num_channels
                                   * Len(inst.renderers[i].history_indices)
          /\ inst.renderers[i].kind = DispatchKind(Declared[i].renderer_config)
          /\ inst.renderers[i].config
               = Get(Declared[i].renderer_config, inst.renderers[i].kind)
    /\ \A i, j \in 1..Len(sl) : i < j => sl[i][2] <= sl[j][1]

\* C1: in every call of produce_features the channel slices handed to the
\* renderers are contiguous and pairwise non-overlapping in declaration order,
\* starting at 0, each of size num_channels * n_history_steps, and the last one
\* ends at the channel count the tensor was allocated with.
C1_SlicesContiguous ==
    /\ Constructed => Len(inst.renderers) = Len(Declared)
    /\ \A sl \in SliceLists : ContiguousSlices(sl)
    /\ \A o \in returned : o.status = "ok" =>
          /\ Len(o.slices) = Len(inst.renderers)
          /\ heap[o.fm].shape[1] = (IF o.slices = <<>> THEN 0 ELSE o.slices[Len(o.slices)][2])
          /\ inst.num_channels = heap[o.fm].shape[1]

\* a call has returned after handing two non-empty slices to two renderers
C1_Witness ==
    \E o \in returned :
        /\ o.status = "ok" /\ Len(o.slices) = 2
        /\ o.slices[1][1] < o.slices[1][2] /\ o.slices[2][1] < o.slices[2][2]
        /\ Len(inst.renderers[1].history_indices) > 1

----------------------------------------------------------------------------
(* C2 *)

\* the channel count read off the config alone
DeclaredChannels ==
    LET n(i) == RendererNumChannels(DispatchKind(Declared[i].renderer_config),
                                    Get(Declared[i].renderer_config,
                                        DispatchKind(Declared[i].renderer_config)))
        steps(i) == LET g == Declared[i].time_grid_params
                    IN IF g.step >= 1 THEN RangeLen(-g.stop - 1, -g.start, g.step) ELSE 0
        sum[k \in 0..Len(Declared)] == IF k = 0 THEN 0 ELSE sum[k - 1] + n(k) * steps(k)
    IN sum[Len(Declared)]

\* C2: every tensor a successful produce_features call returns has the shape
\* [C, rows, cols] that get_tf_signature declares, with C the sum over the
\* declared renderers of num_channels * n_history_steps, whatever the scene
\* and the request.
C2_ShapeFromConfig ==
    \A o \in returned : o.status = "ok" =>
        LET t == heap[o.fm] IN
        /\ t.shape = get_tf_signature(inst).shape
        /\ t.dtype = get_tf_signature(inst).dtype
        /\ t.shape = <<DeclaredChannels, config.feature_map_params.rows,
                       config.feature_map_params.cols>>
        /\ DOMAIN t.data = 0..(t.shape[1] - 1)
        /\ \A c \in DOMAIN t.data :
              /\ DOMAIN t.data[c] = 0..(t.shape[2] - 1)
              /\ \A y \in DOMAIN t.data[c] : DOMAIN t.data[c][y] = 0..(t.shape[3] - 1)

\* calls on two different scenes have returned tensors, on a config whose plane
\* is not square
C2_Witness ==
    /\ config.feature_map_params.rows # config.feature_map_params.cols
    /\ \E a, b \in returned :
          /\ a.status = "ok" /\ b.status = "ok" /\ a.scene # b.scene
          /\ heap[a.fm].shape[1] > 0

----------------------------------------------------------------------------
(* C3 *)

\* C3: for a valid time grid (start, stop, step) the history offsets of a
\* constructed renderer are strictly increasing, all negative, exactly step
\* apart, and len(range(-stop-1, -start, step)) many.
C3_HistoryIndices ==
    Constructed =>
        \A i \in 1..Len(inst.renderers) :
            LET g == Declared[i].time_grid_params
                h == inst.renderers[i].history_indices
            IN ValidGrid(g) =>
                /\ \A k \in 1..Len(h) : h[k] < 0
                /\ \A k \in 1..(Len(h) - 1) : h[k] < h[k + 1] /\ h[k + 1] - h[k] = g.step
                /\ Len(h) = RangeLen(-g.stop - 1, -g.start, g.step)

\* a renderer was constructed on a valid grid with a step of 2 and several offsets
C3_Witness ==
    /\ Constructed
    /\ \E i \in 1..Len(inst.renderers) :
          /\ ValidGrid(Declared[i].time_grid_params)
          /\ Declared[i].time_grid_params.step = 2
          /\ Len(inst.renderers[i].history_indices) > 2

----------------------------------------------------------------------------
(* C4 *)

\* C4: a time grid that violates any of start >= 0, stop >= 0, step >= 1,
\* start <= stop, stop + 1 <= 25 makes the construction of a FeatureRenderer
\* whose group uses it (for at least one renderer) fail, and no renderer object
\* is returned.
C4_InvalidGridRejected ==
    inst.status # "new" =>
        \A k \in 1..Len(config.renderers_groups) :
            (/\ config.renderers_groups[k].renderers # <<>>
             /\ ~ValidGrid(config.renderers_groups[k].time_grid_params))
                => inst.status = "error" /\ inst.renderers = <<>>

----------------------------------------------------------------------------
(* C5 *)

\* C5: a renderer entry whose category name is none of vehicles, pedestrians,
\* road_graph, wherever it sits in the declared groups, makes construction fail:
\* no instance exists, no call is made on it and nothing is rendered.
C5_UnknownCategoryFails ==
    (inst.status # "new" /\ \E i \in 1..Len(Declared) : Unrecognised(Declared[i].renderer_config))
        => /\ inst.status = "error"
           /\ inst.renderers = <<>>
           /\ ncalls = 0 /\ heap = <<>> /\ returned = {} /\ Active = {}

\* construction has failed on an unrecognised entry that sits in the second group
C5_Witness ==
    /\ inst.status = "error" /\ inst.error = "NotImplementedError"
    /\ Len(config.renderers_groups) = 2
    /\ Unrecognised(config.renderers_groups[2].renderers[1])

----------------------------------------------------------------------------
(* Running one call alone *)

ZeroTensor == FeatureRenderer_create_feature_maps(inst)

RECURSIVE RenderRange(_, _, _, _, _, _, _)
\* renderers idx..last of the instance applied in order to the tensor, from
\* slice_start on
RenderRange(self, tensor, idx, last, slice_start, scene, to_track_frame_tf) ==
    IF idx > last THEN [err |-> "none", val |-> tensor]
    ELSE LET renderer == self.renderers[idx]
             slice_end == SliceEnd(slice_start, renderer)
             r == RenderInto(tensor, slice_start, slice_end, renderer, scene,
                             to_track_frame_tf)
         IN IF r.err # "none" THEN r
            ELSE RenderRange(self, r.val, idx + 1, last, slice_end, scene,
                             to_track_frame_tf)

\* the first n renderers of produce_features(scene, request) run on an instance
\* with nothing else running
FirstRenderersAlone(self, scene_id, track_id, n) ==
    LET track == get_latest_track_state_by_id(Scene(scene_id), track_id)
        zeros == FeatureRenderer_create_feature_maps(self)
    IN IF track.err # "none" THEN [err |-> track.err, val |-> zeros]
       ELSE RenderRange(self, zeros, 1, n, 0, Scene(scene_id),
                        get_to_track_frame_transform(track.val))

\* every call of the model run alone on a newly constructed instance: by
\* config, by request, by the number of renderers that have run
AloneRuns ==
    [cfg \in CallConfigs |->
        LET self == FeatureRenderer_init(cfg)
        IN [rq \in Requests |->
              [n \in 0..Len(self.renderers) |->
                  FirstRenderersAlone(self, rq[1], rq[2], n)]]]

\* the call of outcome or activation c run alone, up to its first n renderers
Alone(c, n) == AloneRuns[config][<<c.scene, c.track_id>>][n]

\* the track ids of the latest frame of a scene
LatestIds(scene_id) ==
    LET sc == Scene(scene_id)
        v == PyIndex(sc.past_vehicle_tracks, -1)
        p == PyIndex(sc.past_pedestrian_tracks, -1)
    IN {v[k].track_id : k \in 1..Len(v)} \cup {p[k].track_id : k \in 1..Len(p)}
       \cup {PyIndex(sc.past_ego_track, -1).track_id}

\* the tensors some call holds or has held
UsedIds == ({c.fm : c \in Active} \cup {o.allocated : o \in returned}) \ {0}

----------------------------------------------------------------------------
(* C6 *)

\* C6: a call whose track id is absent from the scene fails with a lookup error
\* and returns no tensor; the lookup comes before the allocation and before any
\* renderer, so the call allocates nothing and hands no slice to any renderer.
C6_AbsentTrackFails ==
    /\ \A o \in returned : o.track_id \notin LatestIds(o.scene) =>
          /\ o.status = "error" /\ o.error = "LookupError"
          /\ o.fm = 0 /\ o.allocated = 0 /\ o.slices = <<>>
    /\ \A c \in Active : c.track_id \notin LatestIds(c.scene) =>
          c.pc = "lookup" /\ c.fm = 0 /\ c.slices = <<>>

\* a call on an absent track id has failed while another call held a tensor
C6_Witness ==
    /\ \E o \in returned : o.track_id \notin LatestIds(o.scene) /\ o.error = "LookupError"
    /\ heap # <<>>

----------------------------------------------------------------------------
(* C7 *)

\* C7: two calls with the same (scene, request) on one instance end the same way
\* and, when they succeed, return tensors equal in every element, whatever calls
\* ran in between or beside them.
C7_Deterministic ==
    \A a, b \in returned :
        (a.scene = b.scene /\ a.track_id = b.track_id) =>
            /\ a.status = b.status /\ a.error = b.error
            /\ a.status = "ok" => heap[a.fm] = heap[b.fm]

\* the same input was rendered twice into two tensors, with a successful call on
\* another input between the two
C7_Witness ==
    \E a, b, c \in returned :
        /\ a.scene = b.scene /\ a.track_id = b.track_id /\ a.status = "ok" /\ b.status = "ok"
        /\ a.fm # b.fm
        /\ c.status = "ok" /\ c.scene # a.scene
        /\ a.id < c.id /\ c.id < b.id
        /\ heap[a.fm] # ZeroTensor /\ heap[c.fm] # heap[a.fm]

----------------------------------------------------------------------------
(* C8 *)

\* the tensor the call in slot s received from the allocation of this step
Allocated(s) ==
    /\ calls[s].pc = "alloc"
    /\ calls'[s].pc # "alloc"

NewTensorId(s) ==
    IF calls'[s].pc # "idle" THEN calls'[s].fm
    ELSE (CHOOSE o \in returned' \ returned : TRUE).allocated

C8_Step ==
    /\ Constructed => inst' = inst
    /\ config' = config
    /\ \A s \in Slots : Allocated(s) =>
          /\ NewTensorId(s) \notin UsedIds
          /\ NewTensorId(s) \notin 1..Len(heap)
          /\ heap'[NewTensorId(s)] = ZeroTensor
          /\ \A y \in 0..(inst.feature_map_params.rows - 1),
                x \in 0..(inst.feature_map_params.cols - 1),
                ch \in 0..(inst.num_channels - 1) :
                   heap'[NewTensorId(s)].data[ch][y][x] = 0

\* C8: no step of produce_features changes the instance (feature-map params,
\* pixel transform, renderer list, each renderer's sub-feature config, history
\* indices and channel count stay as construction left them), and every call is
\* given a freshly allocated, zero-initialised tensor that no earlier call holds.
C8_NoSideEffects == [][C8_Step]_vars

\* a call has been given its tensor after an earlier call returned one that has
\* been drawn on
C8_Witness ==
    \E c \in Active : \E o \in returned :
        /\ c.fm # 0 /\ o.status = "ok" /\ o.fm # c.fm
        /\ heap[o.fm] # ZeroTensor
        /\ heap[c.fm] = ZeroTensor

----------------------------------------------------------------------------
(* C9 *)

\* C9: under every interleaving of the steps of two calls on one instance, the
\* tensor of each call in progress is what its renderers so far produce when the
\* call runs alone, and every ended call ended as it does alone, with the same
\* tensor: no call writes what another call reads.
C9_NoInterference ==
    /\ \A c \in Active : c.fm # 0 =>
          /\ c.pc = "render"
          /\ heap[c.fm] = Alone(c, c.idx - 1).val
    /\ \A o \in returned :
          LET a == Alone(o, Len(inst.renderers)) IN
          /\ o.error = a.err
          /\ o.status = (IF a.err = "none" THEN "ok" ELSE "error")
          /\ o.status = "ok" => heap[o.fm] = a.val

\* two calls on different inputs are both between two of their renderers
C9_Witness ==
    /\ calls[1].pc = "render" /\ calls[2].pc = "render"
    /\ calls[1].scene # calls[2].scene
    /\ calls[1].idx = 2 /\ calls[2].idx = 2
    /\ heap[calls[1].fm] # ZeroTensor /\ heap[calls[2].fm] # ZeroTensor
    /\ heap[calls[1].fm] # heap[calls[2].fm]

----------------------------------------------------------------------------
(* C10 *)

TrackKinds == {"vehicles", "pedestrians"}

\* the transform of the call that ended with outcome o
OutcomeTrackTransform(o) ==
    get_to_track_frame_transform(
        get_latest_track_state_by_id(Scene(o.scene), o.track_id).val)

\* the agents drawn by track renderer r of outcome o at history step i
AgentsAt(o, r, i) ==
    _get_tracks_at_timestamp(inst.renderers[r].kind, Scene(o.scene),
                             inst.renderers[r].history_indices[i + 1])

\* f as a table of its values: merging with the empty function evaluates the
\* function expression once for each argument instead of at every application
Tabulated(f) == f @@ <<>>

\* the pixels of each agent's footprint in the plane of outcome o
Footprints(o, tracks) ==
    LET transform == Compose(inst.to_feature_map_tf, OutcomeTrackTransform(o))
    IN Tabulated([k \in 1..Len(tracks) |->
          PolyPixels(PixelPolygon(get_tracks_polygon(tracks[k]), transform))])

\* the values each agent is drawn with in the channels of a step of renderer r
AgentValues(o, r, tracks) ==
    LET to_track == OutcomeTrackTransform(o)
    IN Tabulated([k \in 1..Len(tracks) |->
          FmRow(inst.renderers[r].kind, inst.renderers[r].config, tracks[k], to_track)])

Plane == (0..(inst.feature_map_params.cols - 1)) \X (0..(inst.feature_map_params.rows - 1))

\* the agents whose footprint covers pixel q
Covering(footprints, q) == {k \in DOMAIN footprints : q \in footprints[k]}

\* history step i of track renderer r of outcome o is drawn last-write-wins
LastWriteWinsAt(o, r, i) ==
    LET tracks == AgentsAt(o, r, i)
        footprints == Footprints(o, tracks)
        values == AgentValues(o, r, tracks)
        n == inst.renderers[r].num_channels
        data == heap[o.fm].data
        first == o.slices[r][1] + i * n
    IN \A q \in Plane :
          LET cov == Covering(footprints, q)
          IN cov # {} =>
                \A ch \in 0..(n - 1) :
                    data[first + ch][q[2]][q[1]] = values[Max(cov)][ch + 1]

\* C10: in a track renderer, for each history step and each enabled channel,
\* the final value at a pixel covered by agents' footprints is the value of the
\* agent that comes last in that frame's agent list among those covering it,
\* unblended with the value of any earlier agent.
C10_LastWriteWins ==
    \A o \in returned : o.status = "ok" =>
        \A r \in 1..Len(inst.renderers) : inst.renderers[r].kind \in TrackKinds =>
            \A i \in 0..(Len(inst.renderers[r].history_indices) - 1) :
                LastWriteWinsAt(o, r, i)

\* two agents drawn with different values in one channel both cover a pixel
OverlapAt(o, r, i) ==
    LET tracks == AgentsAt(o, r, i)
        footprints == Footprints(o, tracks)
        values == AgentValues(o, r, tracks)
    IN \E q \in Plane : \E k1, k2 \in Covering(footprints, q) :
          /\ k1 < k2
          /\ \E ch \in 1..inst.renderers[r].num_channels :
                values[k1][ch] # values[k2][ch] /\ values[k1][ch] # 0

\* a returned tensor holds a pixel covered by two agents drawn with different
\* values in one channel
C10_Witness ==
    \E o \in returned : o.status = "ok" /\
        \E r \in 1..Len(inst.renderers) : inst.renderers[r].kind \in TrackKinds /\
            \E i \in 0..(Len(inst.renderers[r].history_indices) - 1) : OverlapAt(o, r, i)

----------------------------------------------------------------------------
(* C11 *)

\* |n|
Abs(n) == IF n < 0 THEN -n ELSE n

\* the calls that have found their target track
Located == {c \in Active : c.pc # "lookup"}

\* the target's own position through the composed transform, in pixels * 4
TargetImage(c) ==
    LET track == get_latest_track_state_by_id(Scene(c.scene), c.track_id).val
    IN transform_2d_points(<<4 * track.position[1], 4 * track.position[2]>>,
                           Compose(inst.to_feature_map_tf, c.to_track_frame_tf))

----------------------------------------------------------------------------
(* C12 *)

\* the sub-features of each renderer category in their priority order
Priority(kind) ==
    CASE kind = "vehicles" -> <<"occupancy", "velocity", "acceleration", "yaw">>
      [] kind = "pedestrians" -> <<"occupancy", "velocity">>
      [] OTHER -> <<"crosswalk_occupancy", "crosswalk_availability", "lane_availability",
                    "lane_direction", "lane_occupancy", "lane_priority",
                    "lane_speed_limit", "road_polygons">>

\* the channels a sub-feature takes in one history step
Width(f) == IF f \in {"velocity", "acceleration"} THEN 2 ELSE 1

\* the enabled sub-features of a renderer, in priority order
EnabledOf(rd) == SelectSeq(Priority(rd.kind), LAMBDA f : InList(f, rd.config))

\* the channels the first k - 1 of the sub-features take
OffsetOf(features, k) ==
    LET sum[j \in 0..Len(features)] ==
            IF j = 0 THEN 0 ELSE sum[j - 1] + Width(features[j])
    IN sum[k - 1]

\* a renderer of the same class, on the same time grid, with f as its only
\* sub-feature
OnlyFeature(rd, f) ==
    [rd EXCEPT !.config = <<f>>, !.num_channels = RendererNumChannels(rd.kind, <<f>>)]

\* the planes that renderer draws into a zero tensor of its own
OnlyFeatureRun(self, rd, f, scene_id, track_id) ==
    LET single == OnlyFeature(rd, f)
        size == single.num_channels * Len(single.history_indices)
        track == get_latest_track_state_by_id(Scene(scene_id), track_id)
    IN RenderInto(_create_feature_maps(self.feature_map_params.rows,
                                       self.feature_map_params.cols, size),
                  0, size, single, Scene(scene_id),
                  get_to_track_frame_transform(track.val)).val.data

\* by config, by request, by renderer, by enabled sub-feature
OnlyFeatureRuns ==
    [cfg \in CallConfigs |->
        LET self == FeatureRenderer_init(cfg)
        IN [rq \in Requests |->
              [r \in 1..Len(self.renderers) |->
                  LET en == EnabledOf(self.renderers[r])
                  IN [f \in {en[k] : k \in 1..Len(en)} |->
                        OnlyFeatureRun(self, self.renderers[r], f, rq[1], rq[2])]]]]

\* the returned tensors
Results == {o \in returned : o.status = "ok"}

\* the block of renderer r in the tensor of outcome o is laid out by history
\* step, and inside a step by enabled sub-feature in priority order
LayoutAt(o, r) ==
    LET rd == inst.renderers[r]
        en == EnabledOf(rd)
        n == rd.num_channels
        steps == Len(rd.history_indices)
        first == o.slices[r][1]
        data == heap[o.fm].data
        runs == OnlyFeatureRuns[config][<<o.scene, o.track_id>>][r]
    IN /\ n = OffsetOf(en, Len(en) + 1)
       /\ o.slices[r][2] - first = n * steps
       /\ \A t \in 0..(steps - 1) : \A k \in 1..Len(en) :
             \A j \in 0..(Width(en[k]) - 1) :
                 data[first + t * n + OffsetOf(en, k) + j]
                     = runs[en[k]][t * Width(en[k]) + j]

\* C12: in the block of every renderer of a returned tensor, history step t
\* owns the channels [t * n, (t + 1) * n), and inside a step the enabled
\* sub-features lie in the fixed priority order of the category, whatever the
\* order of the names in the config list; each sub-feature's channels hold what
\* a renderer with that sub-feature alone draws, so disabling the others only
\* shifts it.
C12_FixedLayout == \A o \in Results : \A r \in 1..Len(inst.renderers) : LayoutAt(o, r)

ZeroPlane ==
    [y \in 0..(inst.feature_map_params.rows - 1) |->
        [x \in 0..(inst.feature_map_params.cols - 1) |-> 0]]

\* a returned tensor holds a block of several history steps whose config list
\* names two sub-features against the priority order, both drawn in the last step
C12_Witness ==
    \E o \in Results : \E r \in 1..Len(inst.renderers) :
        LET rd == inst.renderers[r]
            last == o.slices[r][2] - rd.num_channels
        IN /\ Len(rd.history_indices) >= 2
           /\ Len(EnabledOf(rd)) = 2 /\ rd.config # EnabledOf(rd)
           /\ \A ch \in last..(o.slices[r][2] - 1) : heap[o.fm].data[ch] # ZeroPlane

----------------------------------------------------------------------------
(* C13 *)

\* the composed transform of the call that ended with outcome o
OutcomeTransform(o) == Compose(inst.to_feature_map_tf, OutcomeTrackTransform(o))

\* the pixels stroked for each lane of the scene of outcome o
LaneStrokes(o) ==
    LET lanes == Scene(o.scene).path_graph.lanes
    IN Tabulated([k \in 1..Len(lanes) |->
          LinePixels(PixelPolygon(Metres4(lanes[k].centers), OutcomeTransform(o)))])

\* the channel of enabled sub-feature f in history step t of renderer r
ChannelOf(o, r, t, f) ==
    LET en == EnabledOf(inst.renderers[r])
    IN o.slices[r][1] + t * inst.renderers[r].num_channels
       + OffsetOf(en, CHOOSE k \in 1..Len(en) : en[k] = f)

\* the road-graph renderers of the instance that draw sub-feature f
RoadGraphWith(f) ==
    {r \in 1..Len(inst.renderers) :
        inst.renderers[r].kind = "road_graph" /\ InList(f, inst.renderers[r].config)}

\* the in-plane pixels of lane k, stroked as in `strokes`, that no lane with
\* another speed limit strokes
OwnStrokes(lanes, strokes, k) ==
    {q \in strokes[k] \cap Plane :
        \A k2 \in 1..Len(lanes) :
            lanes[k2].max_velocity # lanes[k].max_velocity => q \notin strokes[k2]}

\* C13: with lane_speed_limit enabled, in every history step every pixel
\* stroked for a lane and not stroked for a lane with another limit holds
\* max_velocity / 15.0 of that lane in the speed-limit channel (2.0 for a limit
\* of 30).
C13_SpeedLimitValue ==
    \A o \in Results : \A r \in RoadGraphWith("lane_speed_limit") :
        LET lanes == Scene(o.scene).path_graph.lanes
            strokes == LaneStrokes(o)
        IN \A k \in 1..Len(lanes) : \A q \in OwnStrokes(lanes, strokes, k) :
              \A t \in 0..(Len(inst.renderers[r].history_indices) - 1) :
                  15 * heap[o.fm].data[ChannelOf(o, r, t, "lane_speed_limit")][q[2]][q[1]]
                      = lanes[k].max_velocity

\* a returned tensor holds pixels of a lane limited to 30 and of a lane limited
\* to 15 that no lane with another limit strokes
C13_Witness ==
    \E o \in Results : \E r \in RoadGraphWith("lane_speed_limit") :
        LET lanes == Scene(o.scene).path_graph.lanes
            strokes == LaneStrokes(o)
            plane == heap[o.fm].data[ChannelOf(o, r, 0, "lane_speed_limit")]
        IN \E k1, k2 \in 1..Len(lanes) :
              /\ lanes[k1].max_velocity = 30 /\ lanes[k2].max_velocity = 15
              /\ \E q \in OwnStrokes(lanes, strokes, k1) : plane[q[2]][q[1]] = 2
              /\ \E q \in OwnStrokes(lanes, strokes, k2) : plane[q[2]][q[1]] = 1

----------------------------------------------------------------------------
(* C14 *)

\* the call in slot s runs a renderer in this step
Rendering(s) == calls[s].pc = "render" /\ calls'[s] # calls[s]

\* every drawing call of the list writes a channel of [lo, hi)
WritesWithin(ops, lo, hi) == \A k \in 1..Len(ops) : lo <= ops[k].ch /\ ops[k].ch < hi

\* the three sub-slices of history step t of a road-graph renderer lie end to
\* end over the channels of the step, and each part draws inside its own
SubSlicesOf(rd, t, scene, transform) ==
    LET n == rd.num_channels
        cw == _get_crosswalk_feature_map_slice(rd, t)
        ln == _get_lanes_feature_map_slice(rd, t)
        rp == _get_road_polygon_feature_map_slice(rd, t)
        tl == PyIndex(scene.traffic_lights, rd.history_indices[t + 1])
        pg == scene.path_graph
    IN /\ cw[1] = t * n /\ cw[1] <= cw[2]
       /\ ln[1] = cw[2] /\ ln[1] <= ln[2]
       /\ rp[1] = ln[2] /\ rp[1] <= rp[2]
       /\ rp[2] = (t + 1) * n
       /\ cw[1] < cw[2] =>
             WritesWithin(_render_crosswalks(rd.config, cw[1], pg, tl, transform), cw[1], cw[2])
       /\ ln[1] < ln[2] =>
             WritesWithin(_render_lanes(rd.config, ln[1], pg, tl, transform), ln[1], ln[2])
       /\ rp[1] < rp[2] =>
             WritesWithin(_render_road_polygons(rp[1], pg, transform), rp[1], rp[2])

C14_Step ==
    \A s \in Slots : Rendering(s) =>
        LET c == calls[s]
            rd == inst.renderers[c.idx]
            steps == Len(rd.history_indices)
            size == rd.num_channels * steps
            lo == c.slice_start
            ops == Renderer_render(rd, Scene(c.scene), c.to_track_frame_tf).val
        IN /\ WritesWithin(ops, 0, size)
           /\ lo + size <= heap[c.fm].shape[1]
           /\ rd.kind = "road_graph" =>
                 \A t \in 0..(steps - 1) :
                     SubSlicesOf(rd, t, Scene(c.scene),
                                 Compose(rd.to_feature_map_tf, c.to_track_frame_tf))
           /\ \A id \in 1..Len(heap) : id # c.fm => heap'[id] = heap[id]
           /\ \A ch \in DOMAIN heap[c.fm].data :
                 (ch < lo \/ ch >= lo + size) =>
                     heap'[c.fm].data[ch] = heap[c.fm].data[ch]

\* C14: in every step in which a call runs a renderer, every channel index the
\* renderer writes lies in [0, num_channels * n_history_steps) of its view, the
\* crosswalk, lane and road-polygon sub-slices of each history step of a
\* road-graph renderer are disjoint, cover exactly the channels of the step
\* and hold the writes of their part, and no channel outside the renderer's
\* slice, in this tensor or in any other, changes.
C14_WritesInsideSlice == [][C14_Step]_vars

\* a call has run a road-graph renderer with all three parts and then a track
\* renderer, and both have drawn
C14_Witness ==
    \E o \in Results :
        /\ Len(o.slices) = 2
        /\ inst.renderers[1].kind = "road_graph"
        /\ _get_crosswalk_feature_map_size(inst.renderers[1].config) > 0
        /\ _get_lane_feature_map_size(inst.renderers[1].config) > 0
        /\ _get_road_feature_map_size(inst.renderers[1].config) > 0
        /\ inst.renderers[2].kind = "vehicles"
        /\ Len(inst.renderers[2].history_indices) >= 2
        /\ heap[o.fm].data[o.slices[1][2] - 1] # ZeroPlane
        /\ heap[o.fm].data[o.slices[2][2] - 1] # ZeroPlane

----------------------------------------------------------------------------
(* C15 *)

\* the value at pixel q after the items are drawn one at a time in their
\* order, each write replacing the one before (0 where no item covers q)
DrawnOneByOne(pixels, values, q) ==
    LET cov == Covering(pixels, q)
    IN IF cov = {} THEN 0 ELSE values[Max(cov)]

\* the pixels filled for each crosswalk of the scene of outcome o
CrosswalkFills(o) ==
    LET cws == Scene(o.scene).path_graph.crosswalks
    IN [k \in 1..Len(cws) |->
          PolyPixels(PixelPolygon(Metres4(cws[k].geometry), OutcomeTransform(o)))]

\* history step t of road-graph renderer r of outcome o holds, in the channels
\* that are drawn group by group, what drawing one by one gives
GroupingNeutralAt(o, r, t) ==
    LET rd == inst.renderers[r]
        sc == Scene(o.scene)
        lanes == sc.path_graph.lanes
        cws == sc.path_graph.crosswalks
        tl == PyIndex(sc.traffic_lights, rd.history_indices[t + 1])
        data == heap[o.fm].data
    IN /\ InList("lane_speed_limit", rd.config) =>
             \A q \in Plane :
                 15 * data[ChannelOf(o, r, t, "lane_speed_limit")][q[2]][q[1]]
                   = DrawnOneByOne(LaneStrokes(o),
                                   [k \in 1..Len(lanes) |-> lanes[k].max_velocity], q)
       /\ InList("lane_availability", rd.config) =>
             \A q \in Plane :
                 data[ChannelOf(o, r, t, "lane_availability")][q[2]][q[1]]
                   = DrawnOneByOne(LaneStrokes(o),
                                   [k \in 1..Len(lanes) |->
                                       get_lane_availability(lanes[k], tl)], q)
       /\ InList("crosswalk_availability", rd.config) =>
             \A q \in Plane :
                 data[ChannelOf(o, r, t, "crosswalk_availability")][q[2]][q[1]]
                   = DrawnOneByOne(CrosswalkFills(o),
                                   [k \in 1..Len(cws) |->
                                       get_crosswalk_availability(cws[k], tl)], q)

\* C15: for lane availability, lane speed limit and crosswalk availability the
\* value at every pixel of a returned tensor is the value obtained by drawing
\* each lane or crosswalk by itself in the order of the path graph, the last
\* write winning, also where lanes or crosswalks of different values overlap.
C15_GroupingNeutral ==
    \A o \in Results : \A r \in 1..Len(inst.renderers) :
        inst.renderers[r].kind = "road_graph" =>
            \A t \in 0..(Len(inst.renderers[r].history_indices) - 1) :
                GroupingNeutralAt(o, r, t)

----------------------------------------------------------------------------
(* C16 *)

\* the point lists (metres * 4) the renderers of the call of outcome o
\* transform and round: track footprints, crosswalks, lane centres, road
\* polygons
Geometry(o) ==
    LET pg == Scene(o.scene).path_graph
        tracked == {r \in 1..Len(inst.renderers) : inst.renderers[r].kind \in TrackKinds}
        mapped == {r \in 1..Len(inst.renderers) : inst.renderers[r].kind = "road_graph"}
    IN UNION {UNION {LET tracks == AgentsAt(o, r, i)
                     IN {get_tracks_polygon(tracks[k]) : k \in 1..Len(tracks)} :
                     i \in 0..(Len(inst.renderers[r].history_indices) - 1)} :
              r \in tracked}
       \cup (IF mapped = {} THEN {}
             ELSE {Metres4(pg.crosswalks[k].geometry) : k \in 1..Len(pg.crosswalks)}
                  \cup {Metres4(pg.lanes[k].centers) : k \in 1..Len(pg.lanes)}
                  \cup {Metres4(pg.road_polygons[k].geometry) :
                           k \in 1..Len(pg.road_polygons)})

\* the <<coordinate in pixels * 4, pixel index handed to the rasterizer>> pairs
\* of the call of outcome o
Roundings(o) ==
    LET transform == OutcomeTransform(o)
    IN UNION {UNION {LET x == transform_2d_points(g[i], transform)
                         k == PixelPolygon(g, transform)[i]
                     IN {<<x[1], k[1]>>, <<x[2], k[2]>>} : i \in 1..Len(g)} :
              g \in Geometry(o)}

\* k is the integer nearest to n4 / 4, the even one of the two when n4 / 4 lies
\* half way between them
NearestTiesEven(k, n4) ==
    /\ Abs(4 * k - n4) <= 2
    /\ Abs(4 * k - n4) = 2 => k % 2 = 0

\* k = floor(n4 / 4)
FloorOf(k, n4) == 4 * k <= n4 /\ n4 < 4 * k + 4

\* C16 as amended: for every transformed coordinate x of a track footprint,
\* crosswalk, lane centre point or road polygon, the pixel index handed to the
\* rasterizer is np.around(x - 0.5): the integer nearest to x - 0.5, the even
\* one when x - 0.5 lies half way between two integers.
C16_RoundHalfEven ==
    \A o \in Results : \A xk \in Roundings(o) : NearestTiesEven(xk[2], xk[1] - 2)

\* C16 as stated: the pixel index equals floor(x - 0.5)
C16_FloorRounding ==
    \A o \in Results : \A xk \in Roundings(o) : FloorOf(xk[2], xk[1] - 2)

\* one call has rounded a coordinate half way above an odd integer (up, away
\* from the floor), one half way above an even integer (down) and one that is
\* a whole number after the shift
C16_Witness ==
    \E o \in Results :
        /\ \E xk \in Roundings(o) : (xk[1] - 2) % 8 = 6 /\ ~FloorOf(xk[2], xk[1] - 2)
        /\ \E xk \in Roundings(o) : (xk[1] - 2) % 8 = 2 /\ FloorOf(xk[2], xk[1] - 2)
        /\ \E xk \in Roundings(o) : (xk[1] - 2) % 4 = 0

----------------------------------------------------------------------------
(* C17 *)

\* the track renderers of the instance that draw sub-feature f
TrackRenderersWith(f) ==
    {r \in 1..Len(inst.renderers) :
        /\ inst.renderers[r].kind \in TrackKinds
        /\ f \in {EnabledOf(inst.renderers[r])[k] :
                     k \in 1..Len(EnabledOf(inst.renderers[r]))}}

\* the agent's vector of sub-feature f
VectorOf(track, f) ==
    IF f = "velocity" THEN track.linear_velocity ELSE track.linear_acceleration

\* in the two channels of vector sub-feature f, at every history step, every
\* covered pixel holds `scale4 / 4` times the rotated vector of the last agent
\* covering it
VectorsScaledBy(o, f, scale4) ==
    \A r \in TrackRenderersWith(f) :
        \A i \in 0..(Len(inst.renderers[r].history_indices) - 1) :
            LET tracks == AgentsAt(o, r, i)
                footprints == Footprints(o, tracks)
                data == heap[o.fm].data
                ch == ChannelOf(o, r, i, f)
            IN \A q \in Plane :
                  LET cov == Covering(footprints, q)
                  IN cov # {} =>
                        LET v == Rotate(VectorOf(tracks[Max(cov)], f),
                                        OutcomeTrackTransform(o).yaw)
                        IN /\ 4 * data[ch][q[2]][q[1]] = scale4 * v[1]
                           /\ 4 * data[ch + 1][q[2]][q[1]] = scale4 * v[2]

\* C17 as amended: the velocity and acceleration values written into track
\* channels are the agent's vectors transformed by the track-centric transform
\* alone (its rotation, no translation): they are not scaled by 1 / resolution.
C17_TrackFrameVectors ==
    \A o \in Results : \A f \in {"velocity", "acceleration"} : VectorsScaledBy(o, f, 4)

\* C17 as stated: the written vectors went through the linear part of the
\* composed transform and carry its 1 / resolution scale
C17_ComposedVectors ==
    \A o \in Results : \A f \in {"velocity", "acceleration"} :
        VectorsScaledBy(o, f, inst.to_feature_map_tf.scale4)

\* at two metres per pixel a turned target was drawn with a velocity and an
\* acceleration that are not zero
C17_Witness ==
    \E o \in Results :
        /\ inst.feature_map_params.resolution = 2
        /\ OutcomeTrackTransform(o).yaw # 0
        /\ \A f \in {"velocity", "acceleration"} : \E r \in TrackRenderersWith(f) :
              \E q \in Plane : heap[o.fm].data[ChannelOf(o, r, 0, f)][q[2]][q[1]] # 0

----------------------------------------------------------------------------
(* C18 *)

\* the pixels of one track's footprint in the plane of outcome o
FootprintOf(o, track) ==
    PolyPixels(PixelPolygon(get_tracks_polygon(track), OutcomeTransform(o)))

\* the values renderer r draws one track with
RowOf(o, r, track) ==
    FmRow(inst.renderers[r].kind, inst.renderers[r].config, track, OutcomeTrackTransform(o))

\* history step i of track renderer r shows, at every pixel, the ego of that
\* frame where a vehicle renderer's ego footprint lies, else the last track of
\* the renderer's own kind covering the pixel, else zero
AgentOrderAt(o, r, i) ==
    LET rd == inst.renderers[r]
        sc == Scene(o.scene)
        h == rd.history_indices[i + 1]
        ego == PyIndex(sc.past_ego_track, h)
        own == IF rd.kind = "vehicles" THEN PyIndex(sc.past_vehicle_tracks, h)
               ELSE PyIndex(sc.past_pedestrian_tracks, h)
        ego_pixels == IF rd.kind = "vehicles" THEN FootprintOf(o, ego) ELSE {}
        ego_row == RowOf(o, r, ego)
        own_pixels == Tabulated([k \in 1..Len(own) |-> FootprintOf(o, own[k])])
        own_rows == Tabulated([k \in 1..Len(own) |-> RowOf(o, r, own[k])])
        first == o.slices[r][1] + i * rd.num_channels
        data == heap[o.fm].data
    IN \A q \in Plane :
          LET cov == Covering(own_pixels, q)
          IN \A ch \in 0..(rd.num_channels - 1) :
                data[first + ch][q[2]][q[1]]
                  = (IF q \in ego_pixels THEN ego_row[ch + 1]
                     ELSE IF cov = {} THEN 0
                     ELSE own_rows[Max(cov)][ch + 1])

\* the track renderers of the instance
TrackRenderers == {r \in 1..Len(inst.renderers) : inst.renderers[r].kind \in TrackKinds}

\* C18: for each history offset the vehicle renderer draws the vehicle tracks
\* of that frame in scene order and then the ego track of that frame, so the
\* ego shows wherever its footprint lies, also in a frame without vehicles; the
\* pedestrian renderer draws the pedestrian tracks of that frame only, never
\* the ego.
C18_EgoLast ==
    \A o \in Results : \A r \in TrackRenderers :
        \A i \in 0..(Len(inst.renderers[r].history_indices) - 1) : AgentOrderAt(o, r, i)

\* the ego of a frame covers a pixel of a vehicle drawn with another value, a
\* pedestrian channel is zero on an ego pixel and not zero elsewhere, and on
\* another scene the ego was drawn in frames that hold no vehicle
C18_Witness ==
    \E o1, o2 \in Results :
        /\ \E r \in TrackRenderers : inst.renderers[r].kind = "vehicles" /\
              LET sc == Scene(o1.scene)
                  ego == PyIndex(sc.past_ego_track, -1)
                  veh == PyIndex(sc.past_vehicle_tracks, -1)
              IN \E k \in 1..Len(veh) :
                    /\ FootprintOf(o1, ego) \cap FootprintOf(o1, veh[k]) \cap Plane # {}
                    /\ RowOf(o1, r, ego) # RowOf(o1, r, veh[k])
        /\ \E r \in TrackRenderers : inst.renderers[r].kind = "pedestrians" /\
              LET ego == PyIndex(Scene(o1.scene).past_ego_track, -1)
                  plane == heap[o1.fm].data[o1.slices[r][2] - 1]
              IN /\ \E q \in FootprintOf(o1, ego) \cap Plane : plane[q[2]][q[1]] = 0
                 /\ plane # ZeroPlane
        /\ \E r \in TrackRenderers : inst.renderers[r].kind = "vehicles" /\
              /\ \A f \in Frames : Scene(o2.scene).past_vehicle_tracks[f] = <<>>
              /\ \A ch \in o2.slices[r][1]..(o2.slices[r][2] - 1) :
                    heap[o2.fm].data[ch] # ZeroPlane

----------------------------------------------------------------------------
(* C19 *)

\* the history steps of track renderer r whose frame holds no agent of its kind
EmptySteps(o, r) ==
    {i \in 0..(Len(inst.renderers[r].history_indices) - 1) : AgentsAt(o, r, i) = <<>>}

\* the channels of history step i of renderer r in the tensor of outcome o
StepChannels(o, r, i) ==
    LET n == inst.renderers[r].num_channels
    IN (o.slices[r][1] + i * n)..(o.slices[r][1] + (i + 1) * n - 1)

\* every agent of history step i shows with its own values, in the channels of
\* step i, on the pixels of its footprint that no later agent covers
DrawnInOwnChannels(o, r, i) ==
    LET tracks == AgentsAt(o, r, i)
        footprints == Footprints(o, tracks)
        values == AgentValues(o, r, tracks)
        first == o.slices[r][1] + i * inst.renderers[r].num_channels
    IN \A k \in 1..Len(tracks) : \A q \in footprints[k] \cap Plane :
          Max(Covering(footprints, q)) = k =>
              \A ch \in 1..inst.renderers[r].num_channels :
                  heap[o.fm].data[first + ch - 1][q[2]][q[1]] = values[k][ch]

\* C19: a history frame without agents is no error for a track renderer: a
\* renderer that raises has a frame with agents, and in a returned tensor the
\* channels of a step whose frame is empty are all zero while every other step
\* is drawn in its own channels, those after an empty step too.
C19_EmptyFrameSkipped ==
    /\ \A o \in returned :
          (/\ o.status = "error" /\ o.slices # <<>>
           /\ inst.renderers[Len(o.slices)].kind \in TrackKinds)
              => EmptySteps(o, Len(o.slices))
                    # 0..(Len(inst.renderers[Len(o.slices)].history_indices) - 1)
    /\ \A o \in Results : \A r \in TrackRenderers :
          \A i \in 0..(Len(inst.renderers[r].history_indices) - 1) :
              IF i \in EmptySteps(o, r)
              THEN \A ch \in StepChannels(o, r, i) : heap[o.fm].data[ch] = ZeroPlane
              ELSE DrawnInOwnChannels(o, r, i)

\* a returned tensor holds a pedestrian block whose first frame is empty and
\* whose second frame is drawn
C19_Witness ==
    \E o \in Results : \E r \in TrackRenderers :
        /\ inst.renderers[r].num_channels > 0
        /\ 0 \in EmptySteps(o, r) /\ 1 \notin EmptySteps(o, r)
        /\ Len(inst.renderers[r].history_indices) = 2
        /\ \A ch \in StepChannels(o, r, 1) : heap[o.fm].data[ch] # ZeroPlane

----------------------------------------------------------------------------
(* C20 *)

\* the scene of the call holds the target track
TargetPresent(o) == o.track_id \in LatestIds(o.scene)

\* C20: once FeatureRenderer(config) has succeeded, every produce_features
\* call on a scene that holds the target track and all 25 history frames
\* returns a tensor: no config that construction accepts makes a call fail,
\* a track renderer with no recognised sub-feature included.
C20_ConstructedNeverFails ==
    \A o \in returned : TargetPresent(o) => o.status = "ok"

----------------------------------------------------------------------------
(* C21 *)

\* the pixel <<column, row>> the rasterizer is handed for the target's own
\* position
CentrePixel(c) == RoundPoint(TargetImage(c))

\* C21: for every rows >= 1 and cols >= 1, rows # cols included, the pixel the
\* target's own position maps to lies inside the [rows, cols] channel plane as
\* the rasterizer indexes it: its first coordinate is a column below cols and
\* its second a row below rows.
C21_CentreInsidePlane ==
    \A c \in Located :
        /\ CentrePixel(c)[1] \in 0..(inst.feature_map_params.cols - 1)
        /\ CentrePixel(c)[2] \in 0..(inst.feature_map_params.rows - 1)

----------------------------------------------------------------------------
(* C22 *)

\* offset o indexes a frame of a list of MAX_HISTORY_LENGTH past frames
IndexesFrame(o) ==
    (IF o < 0 THEN MAX_HISTORY_LENGTH + o + 1 ELSE o + 1) \in Frames

\* the history offsets h of time grid g: not empty, starting at -stop - 1,
\* every one between -25 and -1 and so the index of an existing frame, and
\* holding -start - 1 exactly when stop - start is a multiple of step
OffsetsInWindow(g, h) ==
    /\ h # <<>>
    /\ h[1] = -g.stop - 1
    /\ \A k \in 1..Len(h) : -25 <= h[k] /\ h[k] <= -1 /\ IndexesFrame(h[k])
    /\ (\E k \in 1..Len(h) : h[k] = -g.start - 1) <=> ((g.stop - g.start) % g.step = 0)

\* C22: for every time grid accepted by _validate_time_grid with step >= 1,
\* the history offsets are non-empty, the first offset is -stop - 1, every
\* offset o satisfies -25 <= o <= -1 and so indexes an existing frame of a
\* scene with MAX_HISTORY_LENGTH = 25 past frames, and -start - 1 is among the
\* offsets exactly when (stop - start) is a multiple of step; the renderers of
\* a constructed instance carry these offsets.
C22_OffsetsInWindow ==
    /\ \A k \in 1..Len(Declared) :
          LET g == Declared[k].time_grid_params
              h == _get_history_indices(g)
          IN (_validate_time_grid(g) = "none" /\ g.step >= 1)
                => (h.err = "none" /\ OffsetsInWindow(g, h.val))
    /\ Constructed =>
          \A r \in 1..Len(inst.renderers) :
              LET g == Declared[r].time_grid_params
              IN g.step >= 1 => OffsetsInWindow(g, inst.renderers[r].history_indices)

\* a constructed instance holds a renderer whose window reaches the oldest
\* frame, is sampled with a step above one and leaves out its most recent
\* frame, and a renderer whose window holds its most recent frame
C22_Witness ==
    /\ Constructed
    /\ \E r \in 1..Len(inst.renderers) :
          LET g == Declared[r].time_grid_params
              h == inst.renderers[r].history_indices
          IN /\ g.stop = MAX_HISTORY_LENGTH - 1 /\ g.step > 1 /\ Len(h) > 1
             /\ h[Len(h)] # -g.start - 1
    /\ \E r \in 1..Len(inst.renderers) :
          LET g == Declared[r].time_grid_params
              h == inst.renderers[r].history_indices
          IN g.step >= 1 /\ h[Len(h)] = -g.start - 1

----------------------------------------------------------------------------
(* C23 *)

\* the categories in their order of precedence
Precedence == <<"vehicles", "pedestrians", "road_graph">>

\* the categories a renderer entry names
Named(entry) == {entry[i][1] : i \in 1..Len(entry)} \cap Categories

\* the named category that comes first in the order of precedence
Preferred(entry) ==
    Precedence[Min({k \in 1..Len(Precedence) : Precedence[k] \in Named(entry)})]

\* Construct has acted
Settled == inst.status # "new"

\* C23: each renderer entry of the config yields exactly one renderer, chosen
\* by the precedence vehicles, pedestrians, road_graph: of an entry that names
\* several categories only the first in that order is instantiated, with its
\* own sub-feature list, and the others add no renderer and no channels; and
\* no error is raised: with valid time grids, construction succeeds as soon
\* as every entry names one recognised category.
C23_OneRendererByPrecedence ==
    /\ Constructed =>
          /\ Len(inst.renderers) = Len(Declared)
          /\ \A i \in 1..Len(Declared) :
                LET entry == Declared[i].renderer_config
                    rd == inst.renderers[i]
                IN /\ rd.kind = Preferred(entry)
                   /\ rd.config = Get(entry, Preferred(entry))
                   /\ rd.num_channels = RendererNumChannels(rd.kind, rd.config)
          /\ inst.num_channels = SumChannels(inst.renderers)
    /\ (/\ Settled
        /\ \A i \in 1..Len(Declared) :
              /\ ValidGrid(Declared[i].time_grid_params)
              /\ Named(Declared[i].renderer_config) # {})
          => Constructed

\* a constructed instance holds the vehicle renderer of an entry that names
\* road_graph, pedestrians and vehicles in that order, with the vehicle
\* channels alone
C23_Witness ==
    /\ Constructed
    /\ \E i \in 1..Len(Declared) :
          LET entry == Declared[i].renderer_config
          IN /\ Named(entry) = Categories /\ entry[1][1] = "road_graph"
             /\ inst.renderers[i].kind = "vehicles"
             /\ inst.renderers[i].num_channels = 3
             /\ Len(inst.renderers) = Len(Declared)

====
